---------------------------- MODULE Spec2Model ----------------------------
(***************************************************************************)
(* Model of the infraction API (pysite/views/api/bot/infractions.py) and   *)
(* of the code jam join route (pysite/views/main/jams/join.py).            *)
(*                                                                         *)
(* Nullable values are sets: {} is null / a missing field, {v} holds v.    *)
(* The infraction table is a sequence; a record's id is its index (the     *)
(* key the store generates on insert).                                     *)
(***************************************************************************)
EXTENDS Integers, Sequences, FiniteSets, TLC

VARIABLES
    table,      \* bot_infractions: sequence of stored infraction documents
    now,        \* the clock read by datetime.now() and rethinkdb.now()
    resp,       \* the JSON response of the last infraction API request
    bans,       \* code_jam_infractions: sequence of jam ban documents
    responses,  \* code_jam_responses: sequence of stored application documents
    jresp,      \* the outcome of the last join request
    creating,   \* the POST /bot/infractions requests in flight, by worker
    checking    \* the join requests in flight, by worker

vars == <<table, now, resp, bans, responses, jresp, creating, checking>>

None == {}

Some(v) == {v}

Val(o) == CHOOSE v \in o : TRUE

(***************************************************************************)
(* Bounds of the model.                                                    *)
(***************************************************************************)
MaxInfractions == 1

MaxTime == 1

MaxDuration == 1

UserIds == {"u1", "u2"}

ActorIds == {"a1"}

Reasons == {"r1", "r2"}

PostTypes == {"ban", "kick"}

PostReasons == {"r1"}

PostUsers == {"u1"}

PostExpand == {None, Some(TRUE)}

ActiveParams == {None, Some("true"), Some("False")}

ExpandParams == {None, Some("1")}

\* durations a request may carry
Durations == 0..MaxDuration

(***************************************************************************)
(* INFRACTION_TYPES and the activation rule as the code computes it.       *)
(***************************************************************************)
TypeKeys == <<"warning", "mute", "ban", "kick", "softban">>

INFRACTION_TYPES ==
    [tp \in {"warning", "mute", "ban", "kick", "softban"} |->
        [timed_infraction |-> tp \in {"mute", "ban"}]]

ValidTypes == DOMAIN INFRACTION_TYPES

RECURSIVE is_timed_fold(_, _, _, _)
is_timed_fold(type_var, keys, i, expr) ==
    IF i > Len(keys) THEN expr
    ELSE is_timed_fold(type_var, keys, i + 1, expr \/ (type_var = keys[i]))

is_timed_infraction_ignores_table(type_var) == type_var \in ValidTypes

\* expr = False; for each timed key: expr = expr | type_var.eq(key)
is_timed_infraction(type_var) ==
    LET timed_infractions ==
            SelectSeq(TypeKeys, LAMBDA key : INFRACTION_TYPES[key].timed_infraction)
    IN  is_timed_fold(type_var, timed_infractions, 1, FALSE)

merge_active_check_no_default(row, t) ==
    IF is_timed_infraction(row.type)
    THEN IF row.active # Some(TRUE)
         THEN FALSE
         ELSE IF row.expires_at = None THEN TRUE ELSE Val(row.expires_at) > t
    ELSE FALSE

\* the derived "active" merged over a row at query time t (rethinkdb.now())
merge_active_check(row, t) ==
    IF is_timed_infraction(row.type)
    THEN IF (IF row.active = None THEN TRUE ELSE Val(row.active)) = FALSE
         THEN FALSE
         ELSE IF row.expires_at = None THEN TRUE ELSE Val(row.expires_at) > t
    ELSE FALSE

(***************************************************************************)
(* parse_bool over the query-string values a request may carry.            *)
(***************************************************************************)
ParamStrings ==
    {"true", "True", "TRUE", "1", "yes", "Yes", "YES", "banana", "false",
     "False", "FALSE", "fAlSe", "no", "No", "NO", "nO", "0", "00", "01",
     "null", "Null", "NULL", "any", "Any", "ANY", "", " ", "none", "None",
     "off", "on", "n", "f", "false ", "-1", "0.0"}

lower_identity(s) == s

\* str.lower()
lower(s) ==
    CASE s \in {"true", "True", "TRUE"} -> "true"
      [] s \in {"yes", "Yes", "YES"} -> "yes"
      [] s \in {"false", "False", "FALSE", "fAlSe"} -> "false"
      [] s \in {"no", "No", "NO", "nO"} -> "no"
      [] s \in {"null", "Null", "NULL"} -> "null"
      [] s \in {"any", "Any", "ANY"} -> "any"
      [] s \in {"none", "None"} -> "none"
      [] OTHER -> s

\* a_string is None (absent) or Some(str); the result is None or Some(bool)
parse_bool(a_string, default) ==
    IF a_string = None \/ a_string = Some("null") \/ a_string = Some("any")
    THEN default
    ELSE IF lower(Val(a_string)) = "false" \/ lower(Val(a_string)) = "no"
            \/ Val(a_string) = "0"
         THEN Some(FALSE)
         ELSE Some(TRUE)

(***************************************************************************)
(* The "users" table and user expansion.                                   *)
(***************************************************************************)
users ==
    {[user_id |-> "u1", username |-> "alice", discriminator |-> 1, avatar |-> "av1"],
     [user_id |-> "u2", username |-> "bob", discriminator |-> 2, avatar |-> "av2"]}

do_expand_no_default(expand, user_id) ==
    IF user_id = None THEN None
    ELSE IF expand
         THEN IF \E u \in users : u.user_id = Val(user_id)
              THEN Some(CHOOSE u \in users : u.user_id = Val(user_id))
              ELSE None
         ELSE Some([user_id |-> Val(user_id)])

\* _merge_expand_users._do_expand; user_id is None or Some(id)
do_expand(expand, user_id) ==
    IF user_id = None THEN None
    ELSE IF expand
         THEN IF \E u \in users : u.user_id = Val(user_id)
              THEN Some(CHOOSE u \in users : u.user_id = Val(user_id))
              ELSE Some([user_id |-> Val(user_id)])
         ELSE Some([user_id |-> Val(user_id)])

\* .merge(_merge_expand_users).merge(_merge_active_check).without("user_id", "actor_id")
shaped(row, expand, t) ==
    [id |-> row.id, type |-> row.type, reason |-> row.reason,
     inserted_at |-> row.inserted_at, expires_at |-> row.expires_at,
     active |-> merge_active_check(row, t),
     user |-> do_expand(expand, Some(row.user_id)),
     actor |-> do_expand(expand, Some(row.actor_id))]

\* table.get(id) ... .default(None): null or the shaped document
get_shaped(tbl, id, expand, t) ==
    IF id \in 1..Len(tbl) THEN Some(shaped(tbl[id], expand, t)) ELSE None

(***************************************************************************)
(* Store writes (ReQL insert / update results).                            *)
(***************************************************************************)
\* row merged with the update document (fields present in upd overwrite)
merge_update(row, upd) ==
    [row EXCEPT !.id = upd.id,
                !.reason = IF upd.reason = None THEN @ ELSE Val(upd.reason),
                !.active = IF upd.active = None THEN @ ELSE upd.active,
                !.expires_at = IF upd.expires_at = None THEN @ ELSE Val(upd.expires_at)]

table_update_every_row(tbl, upd) ==
    LET merged(i) == [merge_update(tbl[i], upd) EXCEPT !.id = tbl[i].id]
    IN  [table |-> [i \in 1..Len(tbl) |-> merged(i)],
         replaced |-> Cardinality({i \in 1..Len(tbl) : merged(i) # tbl[i]}),
         unchanged |-> Cardinality({i \in 1..Len(tbl) : merged(i) = tbl[i]}),
         errors |-> 0]

\* table.update(upd) over every document: a document whose primary key the
\* merge would change is an error and stays as it was
table_update(tbl, upd) ==
    LET ok(i) == merge_update(tbl[i], upd).id = tbl[i].id
        changed(i) == ok(i) /\ merge_update(tbl[i], upd) # tbl[i]
    IN  [table |-> [i \in 1..Len(tbl) |->
                        IF ok(i) THEN merge_update(tbl[i], upd) ELSE tbl[i]],
         replaced |-> Cardinality({i \in 1..Len(tbl) : changed(i)}),
         unchanged |-> Cardinality({i \in 1..Len(tbl) : ok(i) /\ ~changed(i)}),
         errors |-> Cardinality({i \in 1..Len(tbl) : ~ok(i)})]

\* table.get(id).update({"active": False})
deactivate_newest(tbl, id) ==
    [i \in 1..Len(tbl) |-> IF i = Len(tbl) THEN [tbl[i] EXCEPT !.active = Some(FALSE)]
                                             ELSE tbl[i]]

\* table.get(id).update({"active": False})
deactivate(tbl, id) ==
    [i \in 1..Len(tbl) |-> IF i = id THEN [tbl[i] EXCEPT !.active = Some(FALSE)] ELSE tbl[i]]

\* ids of table.merge(_merge_active_check()).filter({user_id, type, active: True})
active_matches(tbl, user_id, infraction_type, t) ==
    {i \in 1..Len(tbl) :
        /\ tbl[i].user_id = user_id
        /\ tbl[i].type = infraction_type
        /\ merge_active_check(tbl[i], t) = TRUE}

(***************************************************************************)
(* InfractionsView.post: create an infraction.                             *)
(***************************************************************************)
NoResp == [op |-> "none", req |-> None, success |-> None, infraction |-> None]

\* expires_at computed by post: only for a timed type and a truthy duration
post_expires_at(infraction_type, duration, inserted_at) ==
    IF INFRACTION_TYPES[infraction_type].timed_infraction
       /\ duration # None /\ Val(duration) # 0
    THEN Some(inserted_at + Val(duration))
    ELSE None

\* the document post inserts, with the key the store generates for it
infraction_insert_doc(generated_key, data, inserted_at) ==
    [id |-> generated_key,
     actor_id |-> data.actor_id,
     user_id |-> data.user_id,
     type |-> data.type,
     reason |-> data.reason,
     inserted_at |-> inserted_at,
     expires_at |-> post_expires_at(data.type, data.duration, inserted_at),
     active |-> None]

\* the table after post: the insert, then the deactivation of the active
\* infraction the first query found (found = None when it found none)
post_table(tbl, data, found, inserted_at) ==
    LET inserted == Append(tbl, infraction_insert_doc(Len(tbl) + 1, data, inserted_at))
    IN  IF found # None THEN deactivate(inserted, Val(found)) ELSE inserted

\* what .limit(1).nth(0).default(None) may return: any one match, or null
post_found(tbl, data, t) ==
    IF INFRACTION_TYPES[data.type].timed_infraction
    THEN LET m == active_matches(tbl, data.user_id, data.type, t)
         IN  IF m = {} THEN {None} ELSE {Some(i) : i \in m}
    ELSE {None}

post(data) ==
    /\ data.type \in ValidTypes
    /\ \E found \in post_found(table, data, now) :
          /\ table' = post_table(table, data, found, now)
          /\ resp' = [op |-> "post", req |-> None, success |-> None,
                      infraction |-> get_shaped(table', Len(table) + 1,
                                                data.expand = Some(TRUE), now)]
    /\ UNCHANGED <<now, bans, responses, jresp, creating, checking>>

(***************************************************************************)
(* InfractionsView.patch: update an infraction.                            *)
(***************************************************************************)
patch_update_collection_from_zero(data, current_time) ==
    [id |-> data.id,
     reason |-> data.reason,
     active |-> data.active,
     expires_at |-> IF data.duration = None THEN None
                    ELSE Some(Some(Val(data.duration)))]

patch_update_collection(data, current_time) ==
    [id |-> data.id,
     reason |-> data.reason,
     active |-> data.active,
     expires_at |-> IF data.duration = None THEN None
                    ELSE Some(Some(current_time + Val(data.duration)))]

patch(data) ==
    LET result_update == table_update(table, patch_update_collection(data, now))
    IN  /\ table' = result_update.table
        /\ resp' = IF result_update.replaced = 0
                   THEN [op |-> "patch", req |-> Some(data), success |-> Some(FALSE),
                         infraction |-> None]
                   ELSE [op |-> "patch", req |-> Some(data), success |-> Some(TRUE),
                         infraction |-> get_shaped(table', data.id, FALSE, now)]
        /\ UNCHANGED <<now, bans, responses, jresp, creating, checking>>

(***************************************************************************)
(* Time passes; the last response has been delivered by then.              *)
(***************************************************************************)
Tick ==
    /\ now < MaxTime
    /\ now' = now + 1
    /\ resp' = NoResp
    /\ UNCHANGED <<table, bans, responses, jresp, creating, checking>>

(***************************************************************************)
(* The GET endpoints.                                                      *)
(***************************************************************************)
passes_filter_stored_override(tbl, i, query_filter, t) ==
    /\ query_filter.user_id = None \/ tbl[i].user_id = Val(query_filter.user_id)
    /\ query_filter.type = None \/ tbl[i].type = Val(query_filter.type)
    /\ query_filter.active = None
       \/ (IF tbl[i].active = None THEN TRUE ELSE Val(tbl[i].active))
          = Val(query_filter.active)

\* does a merged row pass .filter(query_filter)? query_filter maps each of
\* user_id, type, active to None (key absent) or Some(value)
passes_filter(tbl, i, query_filter, t) ==
    /\ query_filter.user_id = None \/ tbl[i].user_id = Val(query_filter.user_id)
    /\ query_filter.type = None \/ tbl[i].type = Val(query_filter.type)
    /\ query_filter.active = None
       \/ merge_active_check(tbl[i], t) = Val(query_filter.active)

\* _merged_query: the ids of the rows that pass, in table order
merged_query_ids(tbl, query_filter, t) ==
    SelectSeq([i \in 1..Len(tbl) |-> i],
              LAMBDA i : passes_filter(tbl, i, query_filter, t))

\* _infraction_list_filtered: the array of shaped rows
infraction_list_filtered(tbl, params, query_filter, t) ==
    LET active == parse_bool(params.active, None)
        expand == parse_bool(params.expand, Some(FALSE))
        filter == [query_filter EXCEPT !.active = IF active # None THEN active ELSE @]
        ids == merged_query_ids(tbl, filter, t)
    IN  [k \in 1..Len(ids) |-> shaped(tbl[ids[k]], expand = Some(TRUE), t)]

\* GET /bot/infractions, /user/<user_id>, /type/<type>, /user/<user_id>/<type>
list(params, user_id, type) ==
    /\ resp' = [op |-> "list",
                req |-> Some([params |-> params, user_id |-> user_id, type |-> type]),
                success |-> None,
                infraction |-> infraction_list_filtered(
                    table, params, [user_id |-> user_id, type |-> type, active |-> None],
                    now)]
    /\ UNCHANGED <<table, now, bans, responses, jresp, creating, checking>>

\* GET /bot/infractions/id/<infraction_id>
get_by_id(params, infraction_id) ==
    /\ resp' = [op |-> "id",
                req |-> Some([params |-> params, id |-> infraction_id]),
                success |-> None,
                infraction |-> get_shaped(table, infraction_id,
                                          parse_bool(params.expand, Some(FALSE)) = Some(TRUE),
                                          now)]
    /\ UNCHANGED <<table, now, bans, responses, jresp, creating, checking>>

\* what the "current" query may return: any one active match, or null
current_results(tbl, params, user_id, type, t) ==
    LET expand == parse_bool(params.expand, Some(FALSE))
        ids == merged_query_ids(
                   tbl, [user_id |-> Some(user_id), type |-> Some(type),
                         active |-> Some(TRUE)], t)
    IN  IF Len(ids) = 0 THEN {None}
        ELSE {Some(shaped(tbl[ids[k]], expand = Some(TRUE), t)) : k \in 1..Len(ids)}

\* GET /bot/infractions/user/<user_id>/<type>/current
current(params, user_id, type) ==
    /\ \E r \in current_results(table, params, user_id, type, now) :
          resp' = [op |-> "current",
                   req |-> Some([params |-> params, user_id |-> user_id, type |-> type]),
                   success |-> None,
                   infraction |-> r]
    /\ UNCHANGED <<table, now, bans, responses, jresp, creating, checking>>

(***************************************************************************)
(* InfractionsView.post one store call at a time, for requests that        *)
(* overlap other requests.                                                 *)
(***************************************************************************)
CreateWorkers == {"c1", "c2"}

\* a request's locals; seen is the set of ids the query for an active
\* infraction matched, of which .limit(1).nth(0) returned found
IdleCreate ==
    [pc |-> "idle", data |-> None, inserted_at |-> 0, seen |-> {}, found |-> None,
     id |-> None]

\* the ids the query for an active infraction matches (none for a type that
\* is not timed: the query is not made)
create_seen(tbl, data, t) ==
    IF INFRACTION_TYPES[data.type].timed_infraction
    THEN active_matches(tbl, data.user_id, data.type, t)
    ELSE {}

create_order_deactivate_first(last, found) ==
    IF last = "begin" THEN IF found # None THEN "deactivate" ELSE "insert"
    ELSE IF last = "deactivate" THEN "insert"
    ELSE "respond"

\* the store call that follows the one just made: the query, then the insert,
\* then the deactivation when the query found an active infraction, then the
\* read of the new record
create_order(last, found) ==
    IF last = "begin" THEN "insert"
    ELSE IF last = "insert" /\ found # None THEN "deactivate"
    ELSE "respond"

\* lines 155-180: the clock, the query for an active infraction, expires_at
\* (a worker that has responded, pc = "done", takes the next request)
create_begin(w, data) ==
    /\ creating[w].pc \in {"idle", "done"}
    /\ data.type \in ValidTypes
    /\ \E found \in post_found(table, data, now) :
          creating' = [creating EXCEPT ![w] =
                          [pc |-> create_order("begin", found), data |-> Some(data),
                           inserted_at |-> now, seen |-> create_seen(table, data, now),
                           found |-> found, id |-> None]]
    /\ UNCHANGED <<table, now, resp, bans, responses, jresp, checking>>

\* lines 182-191: the insert
create_insert(w) ==
    /\ creating[w].pc = "insert"
    /\ table' = Append(table, infraction_insert_doc(Len(table) + 1, Val(creating[w].data),
                                                    creating[w].inserted_at))
    /\ creating' = [creating EXCEPT ![w].pc = create_order("insert", creating[w].found),
                                    ![w].id = Some(Len(table) + 1)]
    /\ UNCHANGED <<now, resp, bans, responses, jresp, checking>>

\* lines 193-194: the deactivation of the infraction the query found
create_deactivate(w) ==
    /\ creating[w].pc = "deactivate"
    /\ table' = deactivate(table, Val(creating[w].found))
    /\ creating' = [creating EXCEPT ![w].pc = create_order("deactivate", creating[w].found)]
    /\ UNCHANGED <<now, resp, bans, responses, jresp, checking>>

\* lines 196-202: the read of the new record and the response
create_respond(w) ==
    /\ creating[w].pc = "respond"
    /\ resp' = [op |-> "post", req |-> None, success |-> None,
                infraction |-> get_shaped(table, Val(creating[w].id),
                                          Val(creating[w].data).expand = Some(TRUE), now)]
    /\ creating' = [creating EXCEPT ![w].pc = "done"]
    /\ UNCHANGED <<table, now, bans, responses, jresp, checking>>

Opt(S) == {None} \cup {Some(v) : v \in S}

(***************************************************************************)
(* Requests of the infraction API specification.                           *)
(***************************************************************************)
PostRequests ==
    [type : PostTypes, reason : PostReasons, user_id : PostUsers, actor_id : ActorIds,
     duration : Opt(Durations), expand : PostExpand]

PatchRequests ==
    [id : 1..(MaxInfractions + 1), reason : Opt(Reasons), active : Opt(BOOLEAN),
     duration : Opt(Durations)]

ListParams == [active : ActiveParams, expand : ExpandParams]

GetParams == [expand : ExpandParams]

InitInfractions ==
    /\ table = <<>>
    /\ now = 0
    /\ resp = NoResp
    /\ creating = [w \in CreateWorkers |-> IdleCreate]

CheckWorkers == {"k1", "k2"}

IdleCheck ==
    [pc |-> "idle", op |-> "none", jam |-> 0, user |-> None, form |-> None,
     infractions |-> <<>>, answers |-> None]

InitJams ==
    /\ bans = <<>>
    /\ responses = <<>>
    /\ jresp = [op |-> "none", jam |-> 0, user |-> None, outcome |-> "none",
                infraction |-> None]
    /\ checking = [w \in CheckWorkers |-> IdleCheck]

Init == InitInfractions /\ InitJams

NextInfractions ==
    \/ \E data \in PostRequests : Len(table) < MaxInfractions /\ post(data)
    \/ \E data \in PatchRequests : patch(data)
    \/ \E params \in ListParams, u \in Opt(PostUsers), tp \in Opt(PostTypes) :
          list(params, u, tp)
    \/ \E params \in GetParams, id \in 1..(MaxInfractions + 1) : get_by_id(params, id)
    \/ \E params \in GetParams, u \in PostUsers, tp \in PostTypes : current(params, u, tp)
    \/ Tick

SpecInfractions == Init /\ [][NextInfractions]_vars

(***************************************************************************)
(* The create / update history of one kind of infraction: more records,    *)
(* fewer request shapes.                                                   *)
(***************************************************************************)
MaxHistory == 3

HistoryTypes == {"ban"}

HistoryPosts ==
    [type : HistoryTypes, reason : {"r1"}, user_id : UserIds, actor_id : ActorIds,
     duration : {None, Some(1)}, expand : {None}]

\* one field at a time: reactivate, deactivate, or re-arm the expiry
HistoryPatches ==
    {[id |-> i, reason |-> None, active |-> f.active, duration |-> f.duration] :
        i \in 1..MaxHistory,
        f \in {[active |-> Some(TRUE), duration |-> None],
               [active |-> Some(FALSE), duration |-> None],
               [active |-> None, duration |-> Some(1)]}}

NextHistory ==
    \/ \E data \in HistoryPosts : Len(table) < MaxHistory /\ post(data)
    \/ \E data \in HistoryPatches : patch(data)
    \/ Tick

SpecHistory == Init /\ [][NextHistory]_vars

(***************************************************************************)
(* Listing a table of several users and types.                             *)
(***************************************************************************)
MaxListed == 2

ListedTypes == {"ban", "kick"}

ListedPosts ==
    [type : ListedTypes, reason : {"r1"}, user_id : UserIds, actor_id : ActorIds,
     duration : {None, Some(1)}, expand : {None}]

\* the manual override, set and cleared
ListedPatches ==
    [id : 1..MaxListed, reason : {None}, active : {Some(TRUE), Some(FALSE)},
     duration : {None}]

ListedParams ==
    [active : {None, Some("true"), Some("False"), Some("any")}, expand : {None}]

NextList ==
    \/ \E data \in ListedPosts : Len(table) < MaxListed /\ post(data)
    \/ \E data \in ListedPatches : patch(data)
    \/ \E params \in ListedParams, u \in Opt(UserIds), tp \in Opt(ListedTypes) :
          list(params, u, tp)
    \/ Tick

SpecList == Init /\ [][NextList]_vars

(***************************************************************************)
(* Updates of every shape on a table of two records.                       *)
(***************************************************************************)
MaxFrame == 2

FramePosts ==
    [type : {"ban", "kick"}, reason : {"r1"}, user_id : {"u1"}, actor_id : ActorIds,
     duration : {None}, expand : {None}]

FramePatches ==
    [id : 1..(MaxFrame + 1), reason : Opt({"r2"}), active : Opt({FALSE}),
     duration : Opt({1})]

NextFrame ==
    \/ \E data \in FramePosts : Len(table) < MaxFrame /\ post(data)
    \/ \E data \in FramePatches : patch(data)
    \/ Tick

SpecFrame == Init /\ [][NextFrame]_vars

(***************************************************************************)
(* parse_bool on its own: a view parses a query parameter.                 *)
(***************************************************************************)
Defaults == {None, Some(TRUE), Some(FALSE)}

\* a call of parse_bool, as in parse_bool(params.get("expand"), default=False)
parse_bool_call(a_string, default) ==
    /\ resp' = [op |-> "parse_bool",
                req |-> Some([a_string |-> a_string, default |-> default]),
                success |-> parse_bool(a_string, default),
                infraction |-> None]
    /\ UNCHANGED <<table, now, bans, responses, jresp, creating, checking>>

NextParse ==
    \E a_string \in Opt(ParamStrings), default \in Defaults :
        parse_bool_call(a_string, default)

SpecParse == Init /\ [][NextParse]_vars

(***************************************************************************)
(* A create whose store calls are interleaved with reads by id and with    *)
(* the passing of time.                                                    *)
(***************************************************************************)
MaxOrder == 2

OrderPosts ==
    [type : {"ban"}, reason : {"r1"}, user_id : {"u1"}, actor_id : ActorIds,
     duration : {None, Some(1)}, expand : {None}]

NextOrder ==
    \/ \E data \in OrderPosts : Len(table) < MaxOrder /\ create_begin("c1", data)
    \/ create_insert("c1")
    \/ create_deactivate("c1")
    \/ create_respond("c1")
    \/ \E id \in 1..MaxOrder : get_by_id([expand |-> None], id)
    \/ Tick

SpecOrder == Init /\ [][NextOrder]_vars

(***************************************************************************)
(* Creates by two requests whose store calls interleave, with the passing  *)
(* of time.                                                                *)
(***************************************************************************)
MaxOverlap == 3

OverlapPosts ==
    [type : {"ban", "mute"}, reason : {"r1"}, user_id : {"u1"}, actor_id : ActorIds,
     duration : {None, Some(1)}, expand : {None}]

NextOverlap ==
    \/ \E w \in CreateWorkers, data \in OverlapPosts :
          /\ Len(table) + Cardinality({v \in CreateWorkers : creating[v].pc = "insert"})
                < MaxOverlap
          /\ create_begin(w, data)
    \/ \E w \in CreateWorkers : create_insert(w)
    \/ \E w \in CreateWorkers : create_deactivate(w)
    \/ \E w \in CreateWorkers : create_respond(w)
    \/ Tick

SpecOverlap == Init /\ [][NextOverlap]_vars

(***************************************************************************)
(* The code jam join route (JamsJoinView).                                 *)
(***************************************************************************)
NumJams == 3

MaxBans == 2

MaxNumber == 2

MaxDebt == 2

\* code_jams: the jams that exist; NumJams + 1 is a jam id with no document
JamIds == 1..NumJams

BanUsers == {"u1", "u2"}

\* code_jam_participants: the users with a participant profile
participants == {"u1"}

\* the session: None (not logged in) or Some(user_id)
Sessions == {None, Some("u1"), Some("u2")}

\* code_jam_questions
questions ==
    [q \in {"q1", "q2", "q3", "q4"} |->
        CASE q = "q1" -> [id |-> "q1", type |-> "number", optional |-> FALSE,
                          min |-> 1, max |-> 3, options |-> {}]
          [] q = "q2" -> [id |-> "q2", type |-> "checkbox", optional |-> TRUE,
                          min |-> 0, max |-> 0, options |-> {}]
          [] q = "q3" -> [id |-> "q3", type |-> "email", optional |-> FALSE,
                          min |-> 0, max |-> 0, options |-> {}]
          [] q = "q4" -> [id |-> "q4", type |-> "radio", optional |-> TRUE,
                          min |-> 0, max |-> 0, options |-> {"opt1", "opt2"}]]

\* code_jam_forms: jam id -> None or Some(question ids)
forms ==
    [j \in 1..(NumJams + 1) |->
        IF j = 1 THEN Some(<<"q1", "q3">>)
        ELSE IF j = 2 THEN Some(<<"q2", "q4">>)
        ELSE None]

\* request.form: question id -> None (not sent) or Some(value); a numeric
\* value is sent as its decimal string and modelled by the number int() gives
FormData ==
    {[q1 |-> None, q2 |-> None, q3 |-> None, q4 |-> None],
     [q1 |-> Some(0), q2 |-> None, q3 |-> Some("a@b.c"), q4 |-> None],
     [q1 |-> Some(2), q2 |-> Some("on"), q3 |-> Some("a@b.c"), q4 |-> Some("opt1")]}

\* email.utils.parseaddr on the addresses a form may carry: (realname, address)
parseaddr(value) ==
    CASE value = "a@b.c" -> <<"", "a@b.c">>
      [] value = "banana" -> <<"", "banana">>
      [] value = "<" -> <<"", "">>
      [] value = "" -> <<"", "">>

HasElem(seq, x) == \E k \in 1..Len(seq) : seq[k] = x

\* get_infractions: the ids of the user's ban documents, in store order
get_infractions(bns, user_id) ==
    SelectSeq([i \in 1..Len(bns) |-> i], LAMBDA i : bns[i].participant = user_id)

RECURSIVE ban_check(_, _, _, _)

ban_check_no_dedupe(bns, ids, k, jam) ==
    IF k > Len(ids) THEN [blocked |-> FALSE, infraction |-> None, bans |-> bns]
    ELSE LET i == ids[k]
             decremented == [bns[i] EXCEPT !.number = @ - 1,
                                           !.decremented_for = Append(@, jam)]
         IN  [blocked |-> TRUE, infraction |-> Some(decremented),
              bans |-> [bns EXCEPT ![i] = decremented]]

ban_check_skips_indefinite(bns, ids, k, jam) ==
    IF k > Len(ids) THEN [blocked |-> FALSE, infraction |-> None, bans |-> bns]
    ELSE LET i == ids[k]
             infraction == bns[i]
             decremented == [infraction EXCEPT !.number = @ - 1,
                                               !.decremented_for = Append(@, jam)]
         IN  IF infraction.number # 0
             THEN IF ~HasElem(infraction.decremented_for, jam)
                  THEN [blocked |-> TRUE, infraction |-> Some(decremented),
                        bans |-> [bns EXCEPT ![i] = decremented]]
                  ELSE [blocked |-> TRUE, infraction |-> Some(infraction), bans |-> bns]
             ELSE IF HasElem(infraction.decremented_for, jam)
             THEN [blocked |-> TRUE, infraction |-> Some(infraction), bans |-> bns]
             ELSE ban_check(bns, ids, k + 1, jam)

ban_check_charges_the_rest(bns, ids, k, jam) ==
    IF k > Len(ids) THEN [blocked |-> FALSE, infraction |-> None, bans |-> bns]
    ELSE LET i == ids[k]
             infraction == bns[i]
             decremented == [infraction EXCEPT !.number = @ - 1,
                                               !.decremented_for = Append(@, jam)]
         IN  IF infraction.number = 0 - 1
             THEN [blocked |-> TRUE, infraction |-> Some(infraction), bans |-> bns]
             ELSE IF infraction.number # 0
             THEN IF ~HasElem(infraction.decremented_for, jam)
                  THEN [blocked |-> TRUE, infraction |-> Some(decremented),
                        bans |-> ban_check([bns EXCEPT ![i] = decremented],
                                           ids, k + 1, jam).bans]
                  ELSE [blocked |-> TRUE, infraction |-> Some(infraction), bans |-> bns]
             ELSE IF HasElem(infraction.decremented_for, jam)
             THEN [blocked |-> TRUE, infraction |-> Some(infraction), bans |-> bns]
             ELSE ban_check(bns, ids, k + 1, jam)

ban_check_marks_exhausted(bns, ids, k, jam) ==
    IF k > Len(ids) THEN [blocked |-> FALSE, infraction |-> None, bans |-> bns]
    ELSE LET i == ids[k]
             infraction == bns[i]
             decremented == [infraction EXCEPT !.number = @ - 1,
                                               !.decremented_for = Append(@, jam)]
             marked == [infraction EXCEPT !.decremented_for = Append(@, jam)]
         IN  IF infraction.number = 0 - 1
             THEN [blocked |-> TRUE, infraction |-> Some(infraction), bans |-> bns]
             ELSE IF infraction.number # 0
             THEN IF ~HasElem(infraction.decremented_for, jam)
                  THEN [blocked |-> TRUE, infraction |-> Some(decremented),
                        bans |-> [bns EXCEPT ![i] = decremented]]
                  ELSE [blocked |-> TRUE, infraction |-> Some(infraction), bans |-> bns]
             ELSE IF HasElem(infraction.decremented_for, jam)
             THEN [blocked |-> TRUE, infraction |-> Some(infraction), bans |-> bns]
             ELSE ban_check([bns EXCEPT ![i] = marked], ids, k + 1, jam)

ban_check_first_document_only(bns, ids, k, jam) ==
    IF k > Len(ids) \/ k > 1 THEN [blocked |-> FALSE, infraction |-> None, bans |-> bns]
    ELSE LET i == ids[k]
             infraction == bns[i]
             decremented == [infraction EXCEPT !.number = @ - 1,
                                               !.decremented_for = Append(@, jam)]
         IN  IF infraction.number = 0 - 1
             THEN [blocked |-> TRUE, infraction |-> Some(infraction), bans |-> bns]
             ELSE IF infraction.number # 0
             THEN IF ~HasElem(infraction.decremented_for, jam)
                  THEN [blocked |-> TRUE, infraction |-> Some(decremented),
                        bans |-> [bns EXCEPT ![i] = decremented]]
                  ELSE [blocked |-> TRUE, infraction |-> Some(infraction), bans |-> bns]
             ELSE IF HasElem(infraction.decremented_for, jam)
             THEN [blocked |-> TRUE, infraction |-> Some(infraction), bans |-> bns]
             ELSE [blocked |-> FALSE, infraction |-> None, bans |-> bns]

ban_check_forgets_charged(bns, ids, k, jam) ==
    IF k > Len(ids) THEN [blocked |-> FALSE, infraction |-> None, bans |-> bns]
    ELSE LET i == ids[k]
             infraction == bns[i]
             decremented == [infraction EXCEPT !.number = @ - 1,
                                               !.decremented_for = Append(@, jam)]
         IN  IF infraction.number = 0 - 1
             THEN [blocked |-> TRUE, infraction |-> Some(infraction), bans |-> bns]
             ELSE IF infraction.number # 0
             THEN IF ~HasElem(infraction.decremented_for, jam)
                  THEN [blocked |-> TRUE, infraction |-> Some(decremented),
                        bans |-> [bns EXCEPT ![i] = decremented]]
                  ELSE [blocked |-> TRUE, infraction |-> Some(infraction), bans |-> bns]
             ELSE ban_check(bns, ids, k + 1, jam)

\* the loop over the user's ban documents in get and post, from the k-th on:
\* whether a document blocks, the document rendered, and the table afterwards
ban_check(bns, ids, k, jam) ==
    IF k > Len(ids) THEN [blocked |-> FALSE, infraction |-> None, bans |-> bns]
    ELSE LET i == ids[k]
             infraction == bns[i]
             decremented == [infraction EXCEPT !.number = @ - 1,
                                               !.decremented_for = Append(@, jam)]
         IN  IF infraction.number = 0 - 1
             THEN [blocked |-> TRUE, infraction |-> Some(infraction), bans |-> bns]
             ELSE IF infraction.number # 0
             THEN IF ~HasElem(infraction.decremented_for, jam)
                  THEN [blocked |-> TRUE, infraction |-> Some(decremented),
                        bans |-> [bns EXCEPT ![i] = decremented]]
                  ELSE [blocked |-> TRUE, infraction |-> Some(infraction), bans |-> bns]
             ELSE IF HasElem(infraction.decremented_for, jam)
             THEN [blocked |-> TRUE, infraction |-> Some(infraction), bans |-> bns]
             ELSE ban_check(bns, ids, k + 1, jam)

get_response_first_only(rs, jam, user_id) ==
    Len(rs) > 0 /\ rs[1].jam = jam /\ rs[1].snowflake = user_id

\* get_response: does the user have a response for the jam?
get_response(rs, jam, user_id) ==
    \E k \in 1..Len(rs) : rs[k].jam = jam /\ rs[k].snowflake = user_id

\* one question of post's loop: None for BadRequest, else Some(answer)
validate_answer(question, value) ==
    IF ~question.optional /\ value = None THEN None
    ELSE IF question.type = "checkbox"
    THEN IF value = Some("on") THEN Some([question |-> question.id, value |-> Some(TRUE)])
         ELSE IF ~question.optional THEN None
         ELSE Some([question |-> question.id, value |-> Some(FALSE)])
    ELSE IF question.type = "email"
    THEN IF value # None /\ value # Some("") /\ parseaddr(Val(value)) = <<"", "">>
         THEN None
         ELSE Some([question |-> question.id, value |-> value])
    ELSE IF question.type \in {"number", "range", "slider"}
    THEN IF value # None /\ (Val(value) > question.max \/ Val(value) < question.min)
         THEN None
         ELSE Some([question |-> question.id, value |-> value])
    ELSE IF question.type = "radio"
    THEN IF value # None /\ value # Some("") /\ Val(value) \notin question.options
         THEN None
         ELSE Some([question |-> question.id, value |-> value])
    ELSE Some([question |-> question.id, value |-> value])

\* the answers of a form, None as soon as one question is a BadRequest
validate_form(qids, form) ==
    IF \E k \in 1..Len(qids) : validate_answer(questions[qids[k]], form[qids[k]]) = None
    THEN None
    ELSE Some([k \in 1..Len(qids) |->
                  Val(validate_answer(questions[qids[k]], form[qids[k]]))])

JResp(op, jam, session, outcome, infraction) ==
    [op |-> op, jam |-> jam, user |-> session, outcome |-> outcome,
     infraction |-> infraction]

\* JamsJoinView.get
join_get(jam, session) ==
    IF jam \notin JamIds
    THEN /\ jresp' = JResp("get", jam, session, "not_found", None)
         /\ UNCHANGED <<bans, responses, table, now, resp, creating, checking>>
    ELSE IF session = None
    THEN /\ jresp' = JResp("get", jam, session, "login", None)
         /\ UNCHANGED <<bans, responses, table, now, resp, creating, checking>>
    ELSE LET user_id == Val(session)
             check == ban_check(bans, get_infractions(bans, user_id), 1, jam)
         IN  /\ bans' = check.bans
             /\ jresp' = JResp("get", jam, session,
                               IF check.blocked THEN "banned"
                               ELSE IF user_id \notin participants THEN "profile"
                               ELSE IF get_response(responses, jam, user_id) THEN "already"
                               ELSE "join",
                               check.infraction)
             /\ UNCHANGED <<responses, table, now, resp, creating, checking>>

\* JamsJoinView.post
join_post(jam, session, form) ==
    IF jam \notin JamIds
    THEN /\ jresp' = JResp("post", jam, session, "not_found", None)
         /\ UNCHANGED <<bans, responses, table, now, resp, creating, checking>>
    ELSE IF session = None
    THEN /\ jresp' = JResp("post", jam, session, "login", None)
         /\ UNCHANGED <<bans, responses, table, now, resp, creating, checking>>
    ELSE LET user_id == Val(session)
             check == ban_check(bans, get_infractions(bans, user_id), 1, jam)
             answers == IF forms[jam] = None THEN None
                        ELSE validate_form(Val(forms[jam]), form)
             outcome == IF check.blocked THEN "banned"
                        ELSE IF user_id \notin participants THEN "profile"
                        ELSE IF get_response(responses, jam, user_id) THEN "already"
                        ELSE IF forms[jam] = None THEN "not_found"
                        ELSE IF answers = None THEN "bad_request"
                        ELSE "thanks"
         IN  /\ bans' = check.bans
             /\ responses' = IF outcome = "thanks"
                             THEN Append(responses,
                                         [snowflake |-> user_id, jam |-> jam,
                                          approved |-> FALSE, answers |-> Val(answers)])
                             ELSE responses
             /\ jresp' = JResp("post", jam, session, outcome, check.infraction)
             /\ UNCHANGED <<table, now, resp, creating, checking>>

(***************************************************************************)
(* JamsJoinView.get / post one store call at a time, for requests that     *)
(* overlap other requests.                                                 *)
(***************************************************************************)
ban_write_decrement_in_place(bns, infraction) ==
    [bns EXCEPT ![infraction.id] =
        [@ EXCEPT !.number = @ - 1,
                  !.decremented_for =
                      Append(@, infraction.decremented_for[Len(infraction.decremented_for)])]]

ban_write_append_to_stored(bns, infraction) ==
    [bns EXCEPT ![infraction.id] =
        [@ EXCEPT !.number = infraction.number,
                  !.decremented_for =
                      Append(@, infraction.decremented_for[Len(infraction.decremented_for)])]]

\* db.insert(infractions_table, infraction, conflict="replace"): the stored
\* document with the key of infraction becomes infraction, whole
ban_write(bns, infraction) ==
    [bns EXCEPT ![infraction.id] = infraction]

\* lines 75-83 (25-33): the jam, the session, and the read of the user's ban
\* documents into the request's own list
check_begin(w, op, jam, session, form) ==
    /\ checking[w].pc \in {"idle", "done"}
    /\ IF jam \notin JamIds
       THEN /\ jresp' = JResp(op, jam, session, "not_found", None)
            /\ checking' = [checking EXCEPT ![w] = IdleCheck]
       ELSE IF session = None
       THEN /\ jresp' = JResp(op, jam, session, "login", None)
            /\ checking' = [checking EXCEPT ![w] = IdleCheck]
       ELSE LET ids == get_infractions(bans, Val(session))
            IN  /\ checking' = [checking EXCEPT ![w] =
                                   [pc |-> "gate", op |-> op, jam |-> jam, user |-> session,
                                    form |-> Some(form),
                                    infractions |-> [k \in 1..Len(ids) |-> bans[ids[k]]],
                                    answers |-> None]]
                /\ UNCHANGED jresp
    /\ UNCHANGED <<table, now, resp, bans, responses, creating>>

\* lines 85-104 (35-51): the loop over the list read before, with its write
check_gate(w) ==
    /\ checking[w].pc = "gate"
    /\ LET c == checking[w]
           n == Len(c.infractions)
           check == ban_check(c.infractions, [k \in 1..n |-> k], 1, c.jam)
       IN  /\ bans' = IF check.bans # c.infractions
                       THEN ban_write(bans, Val(check.infraction))
                       ELSE bans
           /\ IF check.blocked
              THEN /\ jresp' = JResp(c.op, c.jam, c.user, "banned", check.infraction)
                   /\ checking' = [checking EXCEPT ![w].pc = "done"]
              ELSE /\ checking' = [checking EXCEPT ![w].pc = "apply"]
                   /\ UNCHANGED jresp
    /\ UNCHANGED <<table, now, resp, responses, creating>>

\* lines 106-169 (53-71): the participant, the earlier response, the form and
\* the answers
check_apply(w) ==
    /\ checking[w].pc = "apply"
    /\ LET c == checking[w]
           user_id == Val(c.user)
           answers == IF forms[c.jam] = None THEN None
                      ELSE validate_form(Val(forms[c.jam]), Val(c.form))
           outcome == IF user_id \notin participants THEN "profile"
                      ELSE IF get_response(responses, c.jam, user_id) THEN "already"
                      ELSE IF c.op = "get" THEN "join"
                      ELSE IF forms[c.jam] = None THEN "not_found"
                      ELSE IF answers = None THEN "bad_request"
                      ELSE "thanks"
       IN  IF outcome = "thanks"
           THEN /\ checking' = [checking EXCEPT ![w].pc = "insert", ![w].answers = answers]
                /\ UNCHANGED jresp
           ELSE /\ checking' = [checking EXCEPT ![w].pc = "done"]
                /\ jresp' = JResp(c.op, c.jam, c.user, outcome, None)
    /\ UNCHANGED <<table, now, resp, bans, responses, creating>>

\* lines 171-183: the insert of the response
check_insert(w) ==
    /\ checking[w].pc = "insert"
    /\ LET c == checking[w]
       IN  /\ responses' = Append(responses,
                                  [snowflake |-> Val(c.user), jam |-> c.jam,
                                   approved |-> FALSE, answers |-> Val(c.answers)])
           /\ jresp' = JResp(c.op, c.jam, c.user, "thanks", None)
    /\ checking' = [checking EXCEPT ![w].pc = "done"]
    /\ UNCHANGED <<table, now, resp, bans, creating>>

\* the ban documents the staff have filed before any application
InitBanDocs ==
    [id : 1..MaxBans, participant : BanUsers, number : (0 - MaxDebt)..MaxNumber,
     reason : {"spam"}, decremented_for : {<<>>}]

\* a document's primary key is its place in the table
InitBans ==
    UNION {{b \in [1..n -> InitBanDocs] : \A i \in 1..n : b[i].id = i} : n \in 0..MaxBans}

InitJoin ==
    /\ InitInfractions
    /\ bans \in InitBans
    /\ responses = <<>>
    /\ jresp = JResp("none", 0, None, "none", None)
    /\ checking = [w \in CheckWorkers |-> IdleCheck]

NextJoin ==
    \/ \E jam \in 1..(NumJams + 1), session \in Sessions : join_get(jam, session)
    \/ \E jam \in 1..(NumJams + 1), session \in Sessions, form \in FormData :
          join_post(jam, session, form)

SpecJoin == InitJoin /\ [][NextJoin]_vars

(***************************************************************************)
(* Applications with every kind of answer, one request at a time.          *)
(***************************************************************************)
ApplyForms ==
    FormData \cup
    {[q1 |-> Some(2), q2 |-> None, q3 |-> Some("<"), q4 |-> None],
     [q1 |-> Some(2), q2 |-> Some("on"), q3 |-> Some("banana"), q4 |-> Some("opt3")]}

ApplyBans ==
    {b \in InitBans :
        Len(b) <= 1 /\ \A i \in 1..Len(b) : b[i].participant = "u1" /\ b[i].number \in 0..1}

InitApply ==
    /\ InitInfractions
    /\ bans \in ApplyBans
    /\ responses = <<>>
    /\ jresp = JResp("none", 0, None, "none", None)
    /\ checking = [w \in CheckWorkers |-> IdleCheck]

NextApply ==
    \/ \E jam \in 1..(NumJams + 1), session \in Sessions : join_get(jam, session)
    \/ \E jam \in 1..(NumJams + 1), session \in Sessions, form \in ApplyForms :
          join_post(jam, session, form)

SpecApply == InitApply /\ [][NextApply]_vars

(***************************************************************************)
(* Two join requests of one user whose store calls interleave.             *)
(***************************************************************************)
RaceForm == [q1 |-> Some(2), q2 |-> Some("on"), q3 |-> Some("a@b.c"), q4 |-> Some("opt1")]

RaceBans ==
    {b \in InitBans : \A i \in 1..Len(b) : b[i].participant = "u1" /\ b[i].number >= 0 - 1}

InitRace ==
    /\ InitInfractions
    /\ bans \in RaceBans
    /\ responses = <<>>
    /\ jresp = JResp("none", 0, None, "none", None)
    /\ checking = [w \in CheckWorkers |-> IdleCheck]

NextRace ==
    \/ \E w \in CheckWorkers, op \in {"get", "post"}, jam \in {1, 2, NumJams + 1},
          session \in {None, Some("u1")} : check_begin(w, op, jam, session, RaceForm)
    \/ \E w \in CheckWorkers : check_gate(w)
    \/ \E w \in CheckWorkers : check_apply(w)
    \/ \E w \in CheckWorkers : check_insert(w)

SpecRace == InitRace /\ [][NextRace]_vars

\* the whole site: the specifications above are its restrictions to one
\* route and one set of requests
Next == NextInfractions \/ NextHistory \/ NextJoin

Spec == InitJoin /\ [][Next]_vars

(***************************************************************************)
(* Claims about the infraction API.                                        *)
(***************************************************************************)
\* the activation rule as the specification words it
effective_active(row, t) ==
    IF row.type \in {"warning", "kick", "softban"} THEN FALSE
    ELSE IF row.active = Some(FALSE) THEN FALSE
    ELSE IF row.expires_at = None THEN TRUE
    ELSE Val(row.expires_at) > t

\* the shaped records a response carries
resp_records ==
    IF resp.op = "list" THEN {resp.infraction[k] : k \in 1..Len(resp.infraction)}
    ELSE resp.infraction

\* C1: on every read path (list, by id, current, and the record returned by
\* create and update) the reported active of a record equals the activation
\* rule applied to the stored record at the time of the query, whatever the
\* stored override (true and absent read alike) and for every type the
\* stored fields could carry.
C1_ActivationRule ==
    /\ \A r \in resp_records :
          /\ r.id \in 1..Len(table)
          /\ r.active = effective_active(table[r.id], now)
    /\ \A i \in 1..Len(table) : \A tp \in ValidTypes : \A a \in Opt(BOOLEAN) :
          LET row == [table[i] EXCEPT !.type = tp, !.active = a]
          IN  merge_active_check(row, now) = effective_active(row, now)

\* C1 witness: a read by id reports inactive for a timed record with no
\* stored override whose finite expiry, still ahead when it was inserted,
\* has passed with no write.
C1_Witness ==
    /\ resp.op = "id"
    /\ \E r \in resp.infraction :
          /\ r.active = FALSE
          /\ table[r.id].type = "ban"
          /\ table[r.id].active = None
          /\ table[r.id].expires_at # None
          /\ table[r.id].inserted_at < Val(table[r.id].expires_at)
          /\ Val(table[r.id].expires_at) <= now

\* C8: a record of a type that is not timed is never active: every response
\* reports it inactive, a list filtered with active=true never returns it,
\* and the current lookup for such a type returns null, whatever active or
\* expiry an update has stored.
C8_NonTimedNeverActive ==
    /\ \A r \in resp_records :
          r.type \in {"warning", "kick", "softban"} => r.active = FALSE
    /\ \A i \in 1..Len(table) : \A tp \in {"warning", "kick", "softban"} :
          merge_active_check([table[i] EXCEPT !.type = tp], now) = FALSE
    /\ (resp.op = "list" /\ Val(resp.req).params.active = Some("true"))
          => \A r \in resp_records : r.type \in {"mute", "ban"}
    /\ (resp.op = "current" /\ Val(resp.req).type \in {"warning", "kick", "softban"})
          => resp.infraction = None

\* C8 witness: a kick with a stored active of true and an expiry still ahead,
\* for which the current lookup has just returned null.
C8_Witness ==
    /\ resp.op = "current"
    /\ Val(resp.req).type = "kick"
    /\ resp.infraction = None
    /\ \E i \in 1..Len(table) :
          /\ table[i].type = "kick"
          /\ table[i].user_id = Val(resp.req).user_id
          /\ table[i].active = Some(TRUE)
          /\ table[i].expires_at # None
          /\ Val(table[i].expires_at) > now

\* is the patch request one that supplies only a duration?
only_duration(data) ==
    data.reason = None /\ data.active = None /\ data.duration # None

\* C9: an update that supplies only a duration sets the record's expires_at
\* to the time of the update plus the duration, whatever its type, its
\* inserted_at and its previous expires_at, and leaves its stored reason and
\* stored active (and its other fields) as they were.
C9_DurationOnlyUpdate ==
    [][(resp'.op = "patch" /\ only_duration(Val(resp'.req))
        /\ Val(resp'.req).id \in 1..Len(table))
       => LET id == Val(resp'.req).id
          IN  /\ Len(table') = Len(table)
              /\ table'[id] = [table[id] EXCEPT
                                  !.expires_at = Some(now + Val(Val(resp'.req).duration))]
      ]_vars

\* C9 witness: a kick inserted earlier, with an expiry set later by an
\* update that supplied only a duration, counted from the update.
C9_Witness ==
    /\ resp.op = "patch"
    /\ only_duration(Val(resp.req))
    /\ resp.success = Some(TRUE)
    /\ LET row == table[Val(resp.req).id]
       IN  /\ row.type = "kick"
           /\ row.inserted_at < now
           /\ row.expires_at = Some(now + Val(Val(resp.req).duration))
           /\ row.reason = "r2"

\* C10 as claimed: an update reports success=false with no infraction exactly
\* when no record has the given id; an update of an existing id reports
\* success=true with the reshaped record.
C10_UpdateSuccessIffMatched ==
    resp.op = "patch" =>
        LET id == Val(resp.req).id
        IN  /\ resp.success = Some(FALSE) <=> id \notin 1..Len(table)
            /\ resp.success = Some(FALSE) => resp.infraction = None
            /\ resp.success = Some(TRUE)
                  => resp.infraction = Some(shaped(table[id], FALSE, now))

\* C2 as claimed: when a create of a timed type runs for a user, every
\* infraction of that type that was effective-active for the user reads
\* inactive afterwards, the new record reads active, and all of them are
\* still retrievable by id.
C2_SupersedeOnCreate ==
    [][(resp'.op = "post" /\ Len(table') = Len(table) + 1
        /\ table'[Len(table')].type \in {"mute", "ban"})
       => LET new == table'[Len(table')]
          IN  /\ effective_active(new, now)
              /\ \A a \in 1..Len(table) :
                    (/\ table[a].user_id = new.user_id
                     /\ table[a].type = new.type
                     /\ effective_active(table[a], now))
                    => /\ ~effective_active(table'[a], now)
                       /\ get_shaped(table', a, FALSE, now) # None
              /\ get_shaped(table', Len(table'), FALSE, now) # None
      ]_vars

\* C3 as claimed: whenever a create has just completed there is at most one
\* effective-active infraction for each user and timed type, whatever
\* updates came before.
C3_AtMostOneActive ==
    resp.op = "post" =>
        \A u \in UserIds : \A tp \in {"mute", "ban"} :
            Cardinality({i \in 1..Len(table) :
                            /\ table[i].user_id = u
                            /\ table[i].type = tp
                            /\ effective_active(table[i], now)}) <= 1

\* the value an active parameter filters on, as the specification words it:
\* false for "false", "no" and "0" in any case, true for any other string
filter_value(a) ==
    a \notin {Some("false"), Some("False"), Some("FALSE"), Some("no"), Some("No"),
              Some("0")}

\* C11: a list returns exactly the records that match the user_id and type
\* of the route and, when an active parameter is given, whose derived active
\* equals the parameter's value, whatever override is stored; with no active
\* parameter (absent, "null", "any") it returns every record matching the
\* route; each record is returned once and carries the derived active.
C11_ListFilterExact ==
    resp.op = "list" =>
        LET req == Val(resp.req)
            a == req.params.active
            wanted == {i \in 1..Len(table) :
                          /\ req.user_id = None \/ table[i].user_id = Val(req.user_id)
                          /\ req.type = None \/ table[i].type = Val(req.type)
                          /\ a \in {None, Some("null"), Some("any")}
                             \/ effective_active(table[i], now) = filter_value(a)}
        IN  /\ {r.id : r \in resp_records} = wanted
            /\ Len(resp.infraction) = Cardinality(wanted)
            /\ \A r \in resp_records : r.active = effective_active(table[r.id], now)

\* C11 witness: a list of one user's records filtered with active=False
\* returns a ban whose stored override is true but whose expiry has passed,
\* and leaves out the other record of the table.
C11_Witness ==
    /\ resp.op = "list"
    /\ Val(resp.req).params.active = Some("False")
    /\ Val(resp.req).user_id # None
    /\ Len(table) = 2
    /\ Len(resp.infraction) = 1
    /\ LET r == resp.infraction[1]
       IN  /\ table[r.id].active = Some(TRUE)
           /\ table[r.id].expires_at # None
           /\ Val(table[r.id].expires_at) <= now
           /\ r.active = FALSE

\* has the expiry of the row passed at time t?
expired(row, t) == row.expires_at # None /\ Val(row.expires_at) <= t

\* does a read by id at time t report the record active?
reads_active(tbl, id, t) == \E r \in get_shaped(tbl, id, FALSE, t) : r.active

both_created_over(A) ==
    /\ \A w \in CreateWorkers :
          /\ creating[w].pc \in {"respond", "done"}
          /\ creating[w].seen = {A}
          /\ creating[w].id # None
    /\ {creating[w].id : w \in CreateWorkers}
          = {Some(Len(table) - 1), Some(Len(table))}

check_step ==
    /\ jresp'.op \in {"get", "post"}
    /\ jresp'.user # None
    /\ jresp'.jam \in JamIds

NoDup(seq) == \A a, b \in 1..Len(seq) : seq[a] = seq[b] => a = b

\* C4: over any sequence of checks by get and post, a ban document changes
\* only by one decrement together with the append of a jam id it did not
\* hold (so it is charged at most once per jam and holds no jam id twice),
\* and a check for a jam id a document of the user already holds reports
\* Blocked and writes nothing.
C4_IdempotentPerJam ==
    [][check_step =>
        LET u == Val(jresp'.user)
            j == jresp'.jam
            ids == get_infractions(bans, u)
        IN  /\ Len(bans') = Len(bans)
            /\ \A i \in 1..Len(bans) :
                  \/ bans'[i] = bans[i]
                  \/ /\ ~HasElem(bans[i].decremented_for, j)
                     /\ bans'[i] = [bans[i] EXCEPT !.number = @ - 1,
                                                   !.decremented_for = Append(@, j)]
            /\ \A i \in 1..Len(bans) : NoDup(bans'[i].decremented_for)
            /\ (\E k \in 1..Len(ids) : HasElem(bans[ids[k]].decremented_for, j))
                  => jresp'.outcome = "banned" /\ bans' = bans
      ]_vars

\* C4 witness: a post was blocked for the jam a document was charged for
\* first, after it had been charged for another jam and run out.
C4_Witness ==
    /\ jresp.op = "post"
    /\ jresp.outcome = "banned"
    /\ \E r \in jresp.infraction :
          /\ r.number = 0
          /\ Len(r.decremented_for) = 2
          /\ r.decremented_for[1] = jresp.jam
          /\ bans[r.id] = r

\* C5: when the first ban document evaluated for the user has number -1,
\* the check reports Blocked with that document, for every jam, and leaves
\* every ban document as it was.
C5_IndefiniteBan ==
    [][(check_step
        /\ Len(get_infractions(bans, Val(jresp'.user))) > 0
        /\ bans[get_infractions(bans, Val(jresp'.user))[1]].number = 0 - 1)
       => /\ jresp'.outcome = "banned"
          /\ jresp'.infraction = Some(bans[get_infractions(bans, Val(jresp'.user))[1]])
          /\ bans' = bans
      ]_vars

\* C5 witness: blocked by an indefinite ban that was never charged, while a
\* countdown ban of the same user behind it is untouched.
C5_Witness ==
    /\ jresp.outcome = "banned"
    /\ \E r \in jresp.infraction :
          /\ r.number = 0 - 1
          /\ r.decremented_for = <<>>
          /\ r.id = 1
          /\ Len(bans) = 2
          /\ bans[2].participant = r.participant
          /\ bans[2].number = MaxNumber
          /\ bans[2].decremented_for = <<>>

\* C6: for a user whose only ban document started at N > 0 with nothing
\* charged: a check for a jam not yet charged is Blocked and charges it
\* while fewer than N jams are charged; a check for a charged jam is Blocked
\* with no write; once N are charged (number = 0) a check for any other jam
\* is Clear with no write.
C6_Countdown ==
    [][(check_step
        /\ Len(get_infractions(bans, Val(jresp'.user))) = 1
        /\ bans[get_infractions(bans, Val(jresp'.user))[1]].number >= 0
        /\ bans[get_infractions(bans, Val(jresp'.user))[1]].number
           + Len(bans[get_infractions(bans, Val(jresp'.user))[1]].decremented_for) > 0)
       => LET i == get_infractions(bans, Val(jresp'.user))[1]
              j == jresp'.jam
              N == bans[i].number + Len(bans[i].decremented_for)
              charged == Len(bans[i].decremented_for)
          IN  /\ HasElem(bans[i].decremented_for, j)
                    => jresp'.outcome = "banned" /\ bans' = bans
              /\ (~HasElem(bans[i].decremented_for, j) /\ charged < N)
                    => /\ jresp'.outcome = "banned"
                       /\ bans' = [bans EXCEPT
                                      ![i] = [bans[i] EXCEPT
                                                 !.number = N - (charged + 1),
                                                 !.decremented_for = Append(@, j)]]
                       /\ jresp'.infraction = Some(bans'[i])
              /\ (~HasElem(bans[i].decremented_for, j) /\ charged >= N)
                    => /\ jresp'.outcome # "banned"
                       /\ bans' = bans
                       /\ bans[i].number = 0
      ]_vars

\* C6 witness: the user's only ban document has run from MaxNumber down to 0
\* and an application for a jam it was never charged for went through.
C6_Witness ==
    /\ jresp.outcome = "thanks"
    /\ jresp.user = Some("u1")
    /\ Len(get_infractions(bans, "u1")) = 1
    /\ LET r == bans[get_infractions(bans, "u1")[1]]
       IN  /\ r.number = 0
           /\ Len(r.decremented_for) = MaxNumber
           /\ ~HasElem(r.decremented_for, jresp.jam)

\* C7 as claimed: a ban document whose number is 0 or negative other than -1
\* is cleared: a check for a jam id it does not hold neither changes it nor
\* reports Blocked with it.
C7_ClearedWhenNotPositive ==
    [][check_step =>
        LET u == Val(jresp'.user)
            j == jresp'.jam
            ids == get_infractions(bans, u)
        IN  \A k \in 1..Len(ids) :
               (/\ bans[ids[k]].number <= 0
                /\ bans[ids[k]].number # 0 - 1
                /\ ~HasElem(bans[ids[k]].decremented_for, j))
               => /\ bans'[ids[k]] = bans[ids[k]]
                  /\ ~(/\ jresp'.outcome = "banned"
                       /\ \E r \in jresp'.infraction : r.id = ids[k])
      ]_vars

\* the k-th document of the list a request read is the one its loop charges
\* for the jam: the documents before it have run out and do not hold the jam
charges(snap, jam, k) ==
    /\ k \in 1..Len(snap)
    /\ snap[k].number \notin {0, 0 - 1}
    /\ ~HasElem(snap[k].decremented_for, jam)
    /\ \A m \in 1..(k - 1) : snap[m].number = 0 /\ ~HasElem(snap[m].decremented_for, jam)

\* the last requests of workers v and w were checks of one user for one jam
\* that both read the ban documents before either wrote, and both are over
overlapped(v, w) ==
    /\ v # w
    /\ checking[v].pc = "done" /\ checking[w].pc = "done"
    /\ checking[v].user # None /\ checking[v].user = checking[w].user
    /\ checking[v].jam = checking[w].jam
    /\ checking[v].infractions = checking[w].infractions
    /\ \E k \in 1..Len(checking[v].infractions) :
          charges(checking[v].infractions, checking[v].jam, k)

\* C13 as claimed: after two overlapping checks of one user for one jam the
\* ban document is double-decremented: its number is 2 less than what both
\* requests read.
C13_DoubleDecrement ==
    \A v, w \in CheckWorkers :
        overlapped(v, w) =>
            \A k \in 1..Len(checking[v].infractions) :
                charges(checking[v].infractions, checking[v].jam, k)
                => bans[checking[v].infractions[k].id].number
                   = checking[v].infractions[k].number - 2

\* C13 amended: after two overlapping checks of one user for one jam the ban
\* document is the one both requests read with its number reduced by 1 and
\* the jam id appended once: the second whole-document write repeats the
\* first.
C13_SingleDecrement ==
    \A v, w \in CheckWorkers :
        overlapped(v, w) =>
            \A k \in 1..Len(checking[v].infractions) :
                charges(checking[v].infractions, checking[v].jam, k)
                => bans[checking[v].infractions[k].id]
                   = [checking[v].infractions[k] EXCEPT
                         !.number = @ - 1,
                         !.decremented_for = Append(@, checking[v].jam)]

\* C13 witness: two applications (post) of u1 for one jam overlapped on a
\* ban with two jams left and nothing charged.
C13_Witness ==
    /\ overlapped("k1", "k2")
    /\ checking["k1"].op = "post" /\ checking["k2"].op = "post"
    /\ charges(checking["k1"].infractions, checking["k1"].jam, 1)
    /\ checking["k1"].infractions[1].number = MaxNumber
    /\ checking["k1"].infractions[1].decremented_for = <<>>

\* C14: over any sequence of join requests made one at a time the responses
\* table holds at most one response for each user and jam, and an application
\* by a user who already has a response for the jam gets the "already
\* applied" outcome and stores nothing.
C14_OneResponsePerUserAndJam ==
    [][/\ \A a, b \in 1..Len(responses') :
             (responses'[a].snowflake = responses'[b].snowflake
              /\ responses'[a].jam = responses'[b].jam) => a = b
       /\ (/\ jresp'.op = "post"
           /\ jresp'.user # None
           /\ \E a \in 1..Len(responses) :
                 responses[a].snowflake = Val(jresp'.user) /\ responses[a].jam = jresp'.jam)
          => jresp'.outcome = "already" /\ responses' = responses
      ]_vars

\* C14 witness: with responses of u1 for two jams stored, an application for
\* the jam of the second one has just been answered "already applied".
C14_Witness ==
    /\ jresp.op = "post"
    /\ jresp.outcome = "already"
    /\ Len(responses) = 2
    /\ responses[2].jam = jresp.jam
    /\ Some(responses[2].snowflake) = jresp.user

\* C15: a join request (get or post) that ends in not-found (unknown jam, or
\* no form for the jam), in the redirect to the login, or in a validation
\* failure stores no response and leaves every ban document as it was.
C15_RejectedChangesNothing ==
    [][(jresp'.op \in {"get", "post"}
        /\ jresp'.outcome \in {"not_found", "login", "bad_request"})
       => /\ responses' = responses
          /\ bans' = bans
      ]_vars

\* C15 witness: an application of a user with a response for another jam
\* and a ban document that has run out has just failed validation.
C15_Witness ==
    /\ jresp.op = "post"
    /\ jresp.outcome = "bad_request"
    /\ Len(responses) = 1
    /\ responses[1].jam # jresp.jam
    /\ Some(responses[1].snowflake) = jresp.user
    /\ Len(bans) = 1
    /\ Some(bans[1].participant) = jresp.user
    /\ bans[1].number = 0

(***************************************************************************)
(* Further claims about the infraction API.                                *)
(***************************************************************************)
\* C16 as claimed: a create sets inserted_at of the new record to the time of
\* the create, and expires_at to inserted_at plus the duration when the type
\* is timed and a duration is given (0 included), and to null otherwise.
C16_CreateExpiresAt ==
    [][\A data \in PostRequests :
          post(data)
          => LET new == table'[Len(table')]
             IN  /\ new.inserted_at = now
                 /\ new.expires_at =
                       IF data.type \in {"mute", "ban"} /\ data.duration # None
                       THEN Some(new.inserted_at + Val(data.duration))
                       ELSE None
      ]_vars

\* the reference the specification asks for: the stub unless expansion is
\* asked for and the users table holds a profile for the id
expected_ref(id, expand) ==
    IF expand /\ \E u \in users : u.user_id = id
    THEN Some(CHOOSE u \in users : u.user_id = id)
    ELSE Some([user_id |-> id])

\* every record of the response rsp carries the expected user and actor
refs_as_expected(rsp, tbl, expand) ==
    \A r \in (IF rsp.op = "list"
               THEN {rsp.infraction[k] : k \in 1..Len(rsp.infraction)}
               ELSE rsp.infraction) :
        /\ r.user = expected_ref(tbl[r.id].user_id, expand)
        /\ r.actor = expected_ref(tbl[r.id].actor_id, expand)

\* C17: in every response, user and actor of a record are the stub {user_id}
\* when expansion is not asked for, even if a profile exists; the stored
\* profile when it is asked for and a profile exists; the stub when it is
\* asked for and no profile exists; and a missing profile neither nulls the
\* read of a stored record nor drops it from a list.
C17_UserExpansion ==
    [][/\ \A data \in PostRequests :
             post(data) => /\ resp'.infraction # None
                           /\ refs_as_expected(resp', table', data.expand = Some(TRUE))
       /\ resp'.op = "patch" => refs_as_expected(resp', table', FALSE)
       /\ resp'.op \in {"list", "id", "current"}
             => refs_as_expected(resp', table', Val(resp'.req).params.expand = Some("1"))
       /\ (resp'.op = "id" /\ Val(resp'.req).id \in 1..Len(table))
             => resp'.infraction # None
       /\ (resp'.op = "list" /\ Val(resp'.req).params.active = None
           /\ Val(resp'.req).user_id = None /\ Val(resp'.req).type = None)
             => Len(resp'.infraction) = Len(table)
      ]_vars

\* C17 witness: a read by id with expand=1 returned the profile of the user
\* and, for the actor, who has no profile, the stub.
C17_Witness ==
    /\ resp.op = "id"
    /\ Val(resp.req).params.expand = Some("1")
    /\ \E r \in resp.infraction :
          /\ \E u \in users : r.user = Some(u) /\ u.user_id = table[r.id].user_id
          /\ r.actor = Some([user_id |-> table[r.id].actor_id])
          /\ ~\E u \in users : u.user_id = table[r.id].actor_id

\* the strings that equal "false", "no" or "0" when case is ignored
FalseStrings ==
    {Some("false"), Some("False"), Some("FALSE"), Some("fAlSe"),
     Some("no"), Some("No"), Some("NO"), Some("nO"), Some("0")}

\* C18: parse_bool(s, default) is default when s is absent, "null" or "any";
\* false when s is "false", "no" or "0" in any case; true for every other
\* string.
C18_ParseBool ==
    resp.op = "parse_bool" =>
        LET s == Val(resp.req).a_string
            default == Val(resp.req).default
        IN  resp.success =
                IF s \in {None, Some("null"), Some("any")} THEN default
                ELSE IF s \in FalseStrings THEN Some(FALSE)
                ELSE Some(TRUE)

\* C18 witness: "No" parsed to false although the default was true.
C18_Witness ==
    /\ resp.op = "parse_bool"
    /\ Val(resp.req).a_string = Some("No")
    /\ Val(resp.req).default = Some(TRUE)
    /\ resp.success = Some(FALSE)

\* C19: an update changes only the fields it supplies (reason, active, and
\* expires_at through duration) and only in the record with its id; no
\* other record changes in any field; and type, user_id, actor_id and
\* inserted_at of a stored record never change, whatever the request.
C19_UpdateConfined ==
    [][/\ resp'.op = "patch"
             => LET data == Val(resp'.req)
                IN  /\ Len(table') = Len(table)
                    /\ \A i \in 1..Len(table) :
                          table'[i] =
                              IF i = data.id
                              THEN [table[i] EXCEPT
                                       !.reason = IF data.reason = None THEN @
                                                  ELSE Val(data.reason),
                                       !.active = IF data.active = None THEN @
                                                  ELSE data.active,
                                       !.expires_at =
                                           IF data.duration = None THEN @
                                           ELSE Some(now + Val(data.duration))]
                              ELSE table[i]
       /\ \A i \in 1..Len(table) :
             /\ i \in 1..Len(table')
             /\ table'[i].type = table[i].type
             /\ table'[i].user_id = table[i].user_id
             /\ table'[i].actor_id = table[i].actor_id
             /\ table'[i].inserted_at = table[i].inserted_at
      ]_vars

\* C19 witness: an update of the first of two records has set its reason and
\* its expiry, and the second record still has the reason and the null
\* expiry it was created with.
C19_Witness ==
    /\ resp.op = "patch"
    /\ resp.success = Some(TRUE)
    /\ Val(resp.req).id = 1
    /\ Val(resp.req).reason = Some("r2")
    /\ Val(resp.req).duration # None
    /\ Len(table) = 2
    /\ table[1].reason = "r2"
    /\ table[1].expires_at = Some(now + 1)
    /\ table[2].reason = "r1"
    /\ table[2].expires_at = None
    /\ table[2].active = None

(***************************************************************************)
(* Further claims about the ban gate.                                      *)
(***************************************************************************)
\* a ban document blocks a check for the jam: its number is -1 or otherwise
\* not zero, or it already holds the jam
blocks(doc, jam) == doc.number # 0 \/ HasElem(doc.decremented_for, jam)

\* C20: a check goes through the user's ban documents in store order and
\* stops at the first that blocks: that document is the one reported; the
\* check writes at most that one document, and in it only number and
\* decremented_for; every document after it, every non-blocking document
\* before it and every document of another user stays as it was; and when
\* none blocks nothing is written or reported.
C20_ShortCircuit ==
    [][check_step =>
        LET u == Val(jresp'.user)
            j == jresp'.jam
            ids == get_infractions(bans, u)
            B == {k \in 1..Len(ids) : blocks(bans[ids[k]], j)}
        IN  /\ Len(bans') = Len(bans)
            /\ IF B = {}
               THEN /\ jresp'.outcome # "banned"
                    /\ jresp'.infraction = None
                    /\ bans' = bans
               ELSE LET i == ids[CHOOSE k \in B : \A m \in B : k <= m]
                    IN  /\ jresp'.outcome = "banned"
                        /\ jresp'.infraction = Some(bans'[i])
                        /\ \A m \in 1..Len(bans) : m # i => bans'[m] = bans[m]
                        /\ bans'[i].id = bans[i].id
                        /\ bans'[i].participant = bans[i].participant
                        /\ bans'[i].reason = bans[i].reason
      ]_vars

\* C20 witness: the first document of the user has run out on other jams,
\* and the check has charged and reported the second.
C20_Witness ==
    /\ jresp.outcome = "banned"
    /\ Len(bans) = 2
    /\ bans[1].participant = bans[2].participant
    /\ bans[1].number = 0
    /\ bans[1].decremented_for # <<>>
    /\ ~HasElem(bans[1].decremented_for, jresp.jam)
    /\ jresp.infraction = Some(bans[2])
    /\ bans[2].decremented_for = <<jresp.jam>>

\* the ban documents request w read are those of its user, and one of them
\* blocks the jam of the request
read_blocking(w) ==
    \E k \in 1..Len(checking[w].infractions) :
        blocks(checking[w].infractions[k], checking[w].jam)

\* C22: a response is added to the responses table only by the insert of an
\* application (post), it is the response of that request's user and jam, and
\* none of the user's ban documents the request read blocks that jam; a
\* request that reports the user banned had read a blocking document, adds no
\* response and is over.
C22_GateGatesResponses ==
    [][/\ responses' # responses
          => \E w \in CheckWorkers :
                /\ checking[w].pc = "insert" /\ checking'[w].pc = "done"
                /\ checking[w].op = "post"
                /\ Len(responses') = Len(responses) + 1
                /\ SubSeq(responses', 1, Len(responses)) = responses
                /\ responses'[Len(responses')].snowflake = Val(checking[w].user)
                /\ responses'[Len(responses')].jam = checking[w].jam
                /\ \A k \in 1..Len(checking[w].infractions) :
                      checking[w].infractions[k].participant = Val(checking[w].user)
                /\ ~read_blocking(w)
       /\ \A w \in CheckWorkers :
             (checking[w].pc # "done" /\ checking'[w].pc = "done"
                /\ jresp'.outcome = "banned")
             => /\ read_blocking(w)
                /\ checking[w].pc = "gate"
                /\ responses' = responses
      ]_vars

\* C22 witness: an application of a user whose ban has run out on another jam
\* has stored its response, while the other request of the user, for the jam
\* the ban was charged for, was reported banned.
C22_Witness ==
    /\ checking["k1"].pc = "done" /\ checking["k1"].op = "post"
    /\ jresp = JResp("post", checking["k1"].jam, checking["k1"].user, "thanks", None)
    /\ Len(checking["k1"].infractions) = 1
    /\ checking["k1"].infractions[1].number = 0
    /\ checking["k1"].infractions[1].decremented_for # <<>>
    /\ ~read_blocking("k1")
    /\ \E r \in 1..Len(responses) :
          /\ responses[r].jam = checking["k1"].jam
          /\ responses[r].snowflake = Val(checking["k1"].user)
    /\ checking["k2"].pc = "done" /\ checking["k2"].op = "post"
    /\ checking["k2"].user = checking["k1"].user
    /\ read_blocking("k2")
    /\ \A r \in 1..Len(responses) : responses[r].jam # checking["k2"].jam

\* number plus the count of jam ids in decremented_for
counter_total(doc) == doc.number + Len(doc.decremented_for)

\* C23: whichever way the reads and whole-document writes of overlapping
\* get and post ban checks interleave, no step adds or removes a ban
\* document or changes number + len(decremented_for) of a document whose
\* number is not -1, so the total keeps the value it had at the start; and
\* no document's decremented_for ever holds a jam id twice.
C23_CounterConserved ==
    [][/\ Len(bans') = Len(bans)
       /\ \A i \in 1..Len(bans) :
             /\ bans[i].number # 0 - 1
                => /\ counter_total(bans'[i]) = counter_total(bans[i])
                   /\ bans'[i].number # 0 - 1
             /\ NoDup(bans[i].decremented_for)
             /\ NoDup(bans'[i].decremented_for)
      ]_vars

\* C23 witness: a get and a post of one user for two different jams both
\* read a ban with two jams left before either wrote it; both have written,
\* and the second write has replaced the first: the stored document is
\* charged for one of the two jams only.
C23_Witness ==
    /\ checking["k1"].pc = "done" /\ checking["k2"].pc = "done"
    /\ checking["k1"].op = "get" /\ checking["k2"].op = "post"
    /\ checking["k1"].jam # checking["k2"].jam
    /\ checking["k1"].infractions = checking["k2"].infractions
    /\ Len(checking["k1"].infractions) >= 1
    /\ charges(checking["k1"].infractions, checking["k1"].jam, 1)
    /\ charges(checking["k2"].infractions, checking["k2"].jam, 1)
    /\ checking["k1"].infractions[1].number = MaxNumber
    /\ checking["k1"].infractions[1].decremented_for = <<>>
    /\ LET doc == bans[checking["k1"].infractions[1].id]
       IN  /\ doc.number = MaxNumber - 1
           /\ Len(doc.decremented_for) = 1

=============================================================================
